---- MODULE Spec2Model ----
(***************************************************************************)
(* Model of eland.query.Query: a mutable builder holding a boolean filter  *)
(* (_query) and an ordered mapping of named aggregation definitions        *)
(* (_aggs), with its mutation operations, its deep-copy constructor and    *)
(* its two serialisers.                                                    *)
(*                                                                         *)
(* Aggregation definitions are Python dicts that composite_agg and         *)
(* composite_agg_after_key mutate in place, so they live in a heap and the *)
(* builders hold references to them.  A Python dict is a TLA+ function     *)
(* whose domain is the set of its keys; the ordered mapping _aggs is a     *)
(* sequence of [name, ref] entries in insertion order.                     *)
(*                                                                         *)
(* The predicate classes of eland.filter are not part of query.py; they    *)
(* are modelled as the closed set of immutable tree variants of the        *)
(* design notes: Empty, NotNull, IsNull, IsIn, Rlike, RandomScore, And,    *)
(* Not.                                                                    *)
(***************************************************************************)
EXTENDS Integers, Sequences, FiniteSets, TLC

(* ----------------------------- bounds ---------------------------------- *)
\* number of heap cells available for aggregation definitions (all builders)
MaxAddr == 3
\* largest number of predicates held by the filters of all builders together
MaxFilterSize == 3

Addrs == 1..MaxAddr
Builders == {1, 2}

(* ----------------------------- inputs ---------------------------------- *)
AggNames == {"color", "bucket"}
FieldNames == {"price"}
ItemLists == {<<"a", "b">>}
Patterns == {"r.*"}
BucketFuncs == {"terms", "rare_terms"}
MetricFuncs == {"avg"}
Sizes == {5}
Seeds == {42}
AfterKeys == {[color |-> "red"], [color |-> "blue"]}
\* histogram bounds, in units of the smallest positive float (2^-1074)
HistValues == {0, 1}
HistBins == {1, 2}

(* ------------------------ eland.filter (external) ---------------------- *)
EmptyFilter == [op |-> "empty"]
NotNull(field) == [op |-> "not_null", field |-> field]
IsNull(field) == [op |-> "is_null", field |-> field]
IsIn(field, items) == [op |-> "is_in", field |-> field, items |-> items]
Rlike(field, value) == [op |-> "rlike", field |-> field, value |-> value]
NotFilter(p) == [op |-> "not", arg |-> p]
RandomScoreFilter(q, seed) == [op |-> "random_score", query |-> q, seed |-> seed]

empty(p) == p = EmptyFilter

\* the & operator: the identity filter is the neutral element
AndFilter(l, r) ==
    IF empty(l) THEN r
    ELSE IF empty(r) THEN l
    ELSE [op |-> "and", left |-> l, right |-> r]

RECURSIVE FilterSize(_)
FilterSize(p) ==
    IF p.op = "and" THEN FilterSize(p.left) + FilterSize(p.right)
    ELSE IF p.op = "not" THEN 1 + FilterSize(p.arg)
    ELSE IF p.op = "random_score" THEN 1 + FilterSize(p.query)
    ELSE IF p.op = "empty" THEN 0
    ELSE 1

TotalFilterSize(qs) == FilterSize(qs[1]) + FilterSize(qs[2])

\* build(): the rendered (JSON) form of a predicate tree
RECURSIVE build(_)
build(p) ==
    IF p.op = "and" THEN [bool |-> [must |-> <<build(p.left), build(p.right)>>]]
    ELSE IF p.op = "not" THEN [bool |-> [must_not |-> build(p.arg)]]
    ELSE IF p.op = "random_score"
        THEN [function_score |-> [query |-> build(p.query), seed |-> p.seed]]
    ELSE IF p.op = "not_null" THEN [exists |-> p.field]
    ELSE IF p.op = "is_null" THEN [missing |-> p.field]
    ELSE IF p.op = "is_in" THEN [isin |-> [field |-> p.field, values |-> p.items]]
    ELSE IF p.op = "rlike" THEN [regexp |-> [field |-> p.field, value |-> p.value]]
    ELSE [match_all |-> TRUE]

\* predicates a caller can hand to update_boolean_filter
CallerFilters == {EmptyFilter, NotNull("price"), NotFilter(IsNull("price"))}

(* ------------------------------ heap ----------------------------------- *)
Free == [free |-> TRUE]
None == [none |-> TRUE]

\* a composite definition as built by composite_agg (it holds references)
HasRefs(obj) == "composite" \in DOMAIN obj /\ "aggregations" \in DOMAIN obj

Refs(m) == {m[i].ref : i \in 1..Len(m)}

Children(obj) ==
    IF HasRefs(obj) THEN Refs(obj.composite.sources) \cup Refs(obj.aggregations)
    ELSE {}

RECURSIVE ReachObj(_, _)
ReachObj(h, a) == {a} \cup UNION {ReachObj(h, c) : c \in Children(h[a])}

ReachMap(h, m) == UNION {ReachObj(h, a) : a \in Refs(m)}

ReachAll(h, ag) == UNION {ReachMap(h, ag[b]) : b \in DOMAIN ag}

FreeAddrs(h) == {a \in Addrs : h[a] = Free}
Alloc(h) == CHOOSE a \in FreeAddrs(h) : \A c \in FreeAddrs(h) : a <= c

Rank(a, S) == Cardinality({x \in S : x < a})
Nth(S, k) == CHOOSE x \in S : Rank(x, S) = k

(* ------------------------- ordered mapping ----------------------------- *)
HasKey(m, name) == \E i \in 1..Len(m) : m[i].name = name
IndexOf(m, name) == CHOOSE i \in 1..Len(m) : m[i].name = name
Lookup(m, name) == m[IndexOf(m, name)].ref

\* a mapping that appends without looking for the key
PutAppend(m, name, ref) == Append(m, [name |-> name, ref |-> ref])

\* m[name] = ref on a Python dict: an existing key keeps its position
Put(m, name, ref) ==
    IF HasKey(m, name)
    THEN [m EXCEPT ![IndexOf(m, name)] = [name |-> name, ref |-> ref]]
    ELSE Append(m, [name |-> name, ref |-> ref])

(* ----------------------------- rendering ------------------------------- *)
\* the nested dict a reference stands for
RECURSIVE Render(_, _)
Render(h, a) ==
    LET obj == h[a] IN
    IF HasRefs(obj)
    THEN [composite |->
            [obj.composite EXCEPT !.sources =
                [i \in 1..Len(obj.composite.sources) |->
                    (obj.composite.sources[i].name :>
                        Render(h, obj.composite.sources[i].ref))]],
          aggregations |->
            [i \in 1..Len(obj.aggregations) |->
                [name |-> obj.aggregations[i].name,
                 agg |-> Render(h, obj.aggregations[i].ref)]]]
    ELSE obj

RenderMap(h, m) == [i \in 1..Len(m) |-> [name |-> m[i].name, agg |-> Render(h, m[i].ref)]]

(* ------------------------------ state ---------------------------------- *)
\* query, aggs: the fields _query and _aggs of each builder; heap: the dicts
\* the aggregation mappings refer to; origin: the builder each builder was
\* constructed from (0: none); call, result: the latest call and its outcome
VARIABLES query, aggs, heap, origin, call, result

vars == <<query, aggs, heap, origin, call, result>>

Returned(v) == [ret |-> v, raised |-> "none", warned |-> FALSE]
Raised(e) == [ret |-> None, raised |-> e, warned |-> FALSE]

Init ==
    /\ query = [b \in Builders |-> EmptyFilter]
    /\ aggs = [b \in Builders |-> <<>>]
    /\ heap = [a \in Addrs |-> Free]
    /\ origin = [b \in Builders |-> 0]
    /\ call = [op |-> "__init__", b |-> 2, src |-> 0]
    /\ result = Returned(None)

(* ------------------------ object identities --------------------------- *)
RelocMap(m, reloc) == [i \in 1..Len(m) |-> [name |-> m[i].name, ref |-> reloc[m[i].ref]]]

RelocObj(obj, reloc) ==
    IF HasRefs(obj)
    THEN [composite |-> [obj.composite EXCEPT !.sources = RelocMap(@, reloc)],
          aggregations |-> RelocMap(obj.aggregations, reloc)]
    ELSE obj

RefSeq(m) == [i \in 1..Len(m) |-> m[i].ref]

ChildSeq(obj) ==
    IF HasRefs(obj) THEN RefSeq(obj.composite.sources) \o RefSeq(obj.aggregations)
    ELSE <<>>

SeqRange(sq) == {sq[i] : i \in 1..Len(sq)}

\* the reachable cells in the order a traversal from the builders meets them
RECURSIVE VisitOrder(_, _, _)
VisitOrder(h, todo, acc) ==
    IF todo = <<>> THEN acc
    ELSE IF Head(todo) \in SeqRange(acc) THEN VisitOrder(h, Tail(todo), acc)
    ELSE VisitOrder(h, ChildSeq(h[Head(todo)]) \o Tail(todo), Append(acc, Head(todo)))

\* An object's identity is not observable, only whether two references
\* denote the same object: cells no builder reaches are reclaimed and the
\* live ones are numbered in traversal order.
Normalize(h, ag) ==
    LET ord == VisitOrder(h, RefSeq(ag[1]) \o RefSeq(ag[2]), <<>>)
        pos == [a \in SeqRange(ord) |-> CHOOSE i \in 1..Len(ord) : ord[i] = a]
    IN [heap |-> [c \in Addrs |-> IF c <= Len(ord) THEN RelocObj(h[ord[c]], pos) ELSE Free],
        aggs |-> [b \in Builders |-> RelocMap(ag[b], pos)]]

Commit(h, ag) ==
    LET n == Normalize(h, ag) IN
    /\ heap' = n.heap
    /\ aggs' = n.aggs

(* ------------------- Query.__init__ (construction) --------------------- *)

\* copy.copy in place of deepcopy: the new mapping refers to the same dicts
shallowcopy(h, m, F) == [heap |-> h, aggs |-> m]

\* deepcopy(query._aggs): every reachable dict is copied into a cell of F
deepcopy(h, m, F) ==
    LET R == ReachMap(h, m)
        reloc == [a \in R |-> Nth(F, Rank(a, R))]
        img == {reloc[a] : a \in R}
        src(c) == CHOOSE a \in R : reloc[a] = c
    IN [heap |-> [c \in Addrs |-> IF c \in img THEN RelocObj(h[src(c)], reloc) ELSE h[c]],
        aggs |-> RelocMap(m, reloc)]

\* the name b is bound to a new builder made from src: what was copied from
\* the builder b named before no longer has an origin among the builders
Rebound(b, src) ==
    [x \in Builders |-> IF x = b THEN src ELSE IF origin[x] = b THEN 0 ELSE origin[x]]

\* b = Query()
init_new(b) ==
    /\ query' = [query EXCEPT ![b] = EmptyFilter]
    /\ Commit(heap, [aggs EXCEPT ![b] = <<>>])
    /\ origin' = Rebound(b, 0)
    /\ call' = [op |-> "__init__", b |-> b, src |-> 0]
    /\ result' = Returned(None)

\* b = Query(src)
init_copy(b, src) ==
    LET kept == [aggs EXCEPT ![b] = <<>>]
        F == Addrs \ ReachAll(heap, kept)
        cp == deepcopy(heap, aggs[src], F)
    IN /\ b # src
       /\ Cardinality(ReachMap(heap, aggs[src])) <= Cardinality(F)
       /\ TotalFilterSize([query EXCEPT ![b] = query[src]]) <= MaxFilterSize
       /\ query' = [query EXCEPT ![b] = query[src]]
       /\ Commit(cp.heap, [aggs EXCEPT ![b] = cp.aggs])
       /\ origin' = Rebound(b, src)
       /\ call' = [op |-> "__init__", b |-> b, src |-> src]
       /\ result' = Returned(None)

(* ----------------------- filter operations ---------------------------- *)
SetQuery(b, q) ==
    /\ TotalFilterSize([query EXCEPT ![b] = q]) <= MaxFilterSize
    /\ query' = [query EXCEPT ![b] = q]
    /\ result' = Returned(None)
    /\ UNCHANGED <<aggs, heap, origin>>

exists_query(q, field, must) ==
    IF must
    THEN IF empty(q) THEN NotNull(field) ELSE AndFilter(q, NotNull(field))
    ELSE IF empty(q) THEN IsNull(field) ELSE AndFilter(q, IsNull(field))

exists(b, field, must) ==
    /\ SetQuery(b, exists_query(query[b], field, must))
    /\ call' = [op |-> "exists", b |-> b, field |-> field, must |-> must]

ids_query(q, items, must) ==
    IF must
    THEN IF empty(q) THEN IsIn("ids", items) ELSE AndFilter(q, IsIn("ids", items))
    ELSE IF empty(q) THEN NotFilter(IsIn("ids", items))
         ELSE AndFilter(q, NotFilter(IsIn("ids", items)))

ids(b, items, must) ==
    /\ SetQuery(b, ids_query(query[b], items, must))
    /\ call' = [op |-> "ids", b |-> b, items |-> items, must |-> must]

\* must=false negating the accumulated filter together with the new test
terms_query_negate_all(q, field, items, must) ==
    IF must
    THEN IF empty(q) THEN IsIn(field, items) ELSE AndFilter(q, IsIn(field, items))
    ELSE NotFilter(AndFilter(q, IsIn(field, items)))

terms_query(q, field, items, must) ==
    IF must
    THEN IF empty(q) THEN IsIn(field, items) ELSE AndFilter(q, IsIn(field, items))
    ELSE IF empty(q) THEN NotFilter(IsIn(field, items))
         ELSE AndFilter(q, NotFilter(IsIn(field, items)))

terms(b, field, items, must) ==
    /\ SetQuery(b, terms_query(query[b], field, items, must))
    /\ call' = [op |-> "terms", b |-> b, field |-> field, items |-> items, must |-> must]

regexp_query(q, field, value) ==
    IF empty(q) THEN Rlike(field, value) ELSE AndFilter(q, Rlike(field, value))

regexp(b, field, value) ==
    /\ SetQuery(b, regexp_query(query[b], field, value))
    /\ call' = [op |-> "regexp", b |-> b, field |-> field, value |-> value]

\* no short-circuit on the identity filter: always an AND node
update_boolean_filter_wrap(q, boolean_filter) ==
    [op |-> "and", left |-> q, right |-> boolean_filter]

update_boolean_filter_query(q, boolean_filter) ==
    IF empty(q) THEN boolean_filter ELSE AndFilter(q, boolean_filter)

update_boolean_filter(b, boolean_filter) ==
    /\ SetQuery(b, update_boolean_filter_query(query[b], boolean_filter))
    /\ call' = [op |-> "update_boolean_filter", b |-> b, filter |-> boolean_filter]

random_score_query(q, random_state) == RandomScoreFilter(q, random_state)

random_score(b, random_state) ==
    /\ SetQuery(b, random_score_query(query[b], random_state))
    /\ call' = [op |-> "random_score", b |-> b, seed |-> random_state]

(* --------------------- aggregation operations ------------------------- *)
\* self._aggs[name] = agg, with agg a newly created dict
SetAgg(b, name, agg) ==
    LET a == Alloc(heap) IN
    /\ FreeAddrs(heap) # {}
    /\ Commit([heap EXCEPT ![a] = agg], [aggs EXCEPT ![b] = Put(aggs[b], name, a)])
    /\ result' = Returned(None)
    /\ UNCHANGED <<query, origin>>

terms_aggs_agg(func, field, es_size) == (func :> [field |-> field, size |-> es_size])

terms_aggs(b, name, func, field, es_size) ==
    /\ SetAgg(b, name, terms_aggs_agg(func, field, es_size))
    /\ call' = [op |-> "terms_aggs", b |-> b, name |-> name, func |-> func,
                field |-> field, size |-> es_size]

metric_aggs_agg(func, field) == (func :> [field |-> field])

metric_aggs(b, name, func, field) ==
    /\ SetAgg(b, name, metric_aggs_agg(func, field))
    /\ call' = [op |-> "metric_aggs", b |-> b, name |-> name, func |-> func, field |-> field]

term_aggs_agg(field) == [terms |-> [field |-> field]]

term_aggs(b, name, field) ==
    /\ SetAgg(b, name, term_aggs_agg(field))
    /\ call' = [op |-> "term_aggs", b |-> b, name |-> name, field |-> field]

\* agg.get("terms"): the key is present and its value is a non-empty dict
GetTerms(agg) == "terms" \in DOMAIN agg /\ DOMAIN agg["terms"] # {}

\* the flag is never written
SetMissingBucketNoop(agg) == agg

\* agg["terms"]["missing_bucket"] = "true"
SetMissingBucket(agg) == [agg EXCEPT !["terms"] = [missing_bucket |-> "true"] @@ @]

\* composite_agg without self._aggs.clear(): the old entries stay
composite_agg_keep(h, m, name, size, dropna) ==
    LET IsSource(e) == GetTerms(h[e.ref])
        IsOther(e) == ~GetTerms(h[e.ref])
        sources == SelectSeq(m, IsSource)
        aggregations == SelectSeq(m, IsOther)
        h1 == [a \in Addrs |->
                 IF a \in Refs(sources) /\ ~dropna THEN SetMissingBucket(h[a]) ELSE h[a]]
        a == Alloc(h1)
        agg == [composite |-> [size |-> size, sources |-> sources],
                aggregations |-> aggregations]
    IN [heap |-> [h1 EXCEPT ![a] = agg], aggs |-> Put(m, name, a)]

\* the body of composite_agg on the mapping m of one builder
composite_agg_body(h, m, name, size, dropna) ==
    LET IsSource(e) == GetTerms(h[e.ref])
        IsOther(e) == ~GetTerms(h[e.ref])
        sources == SelectSeq(m, IsSource)
        aggregations == SelectSeq(m, IsOther)
        h1 == [a \in Addrs |->
                 IF a \in Refs(sources) /\ ~dropna THEN SetMissingBucket(h[a]) ELSE h[a]]
        a == Alloc(h1)
        agg == [composite |-> [size |-> size, sources |-> sources],
                aggregations |-> aggregations]
    IN [heap |-> [h1 EXCEPT ![a] = agg], aggs |-> <<[name |-> name, ref |-> a]>>]

composite_agg(b, name, size, dropna) ==
    LET r == composite_agg_body(heap, aggs[b], name, size, dropna) IN
    /\ FreeAddrs(heap) # {}
    /\ Commit(r.heap, [aggs EXCEPT ![b] = r.aggs])
    /\ result' = Returned(None)
    /\ call' = [op |-> "composite_agg", b |-> b, name |-> name, size |-> size,
                dropna |-> dropna]
    /\ UNCHANGED <<query, origin>>

\* self._aggs[name]["composite"] resolves without a KeyError
after_key_ok(h, m, name) == HasKey(m, name) /\ "composite" \in DOMAIN h[Lookup(m, name)]

\* setdefault in place of assignment: an earlier cursor is kept
after_key_heap_keep(h, m, name, after_key) ==
    [h EXCEPT ![Lookup(m, name)] =
        [@ EXCEPT !["composite"] = @ @@ [after |-> after_key]]]

\* self._aggs[name]["composite"]["after"] = after_key
after_key_heap(h, m, name, after_key) ==
    [h EXCEPT ![Lookup(m, name)] =
        [@ EXCEPT !["composite"] = [after |-> after_key] @@ @]]

composite_agg_after_key(b, name, after_key) ==
    /\ IF after_key_ok(heap, aggs[b], name)
       THEN /\ heap' = after_key_heap(heap, aggs[b], name, after_key)
            /\ result' = Returned(None)
       ELSE /\ heap' = heap
            /\ result' = Raised("KeyError")
    /\ call' = [op |-> "composite_agg_after_key", b |-> b, name |-> name,
                after_key |-> after_key]
    /\ UNCHANGED <<query, aggs, origin>>

\* x / n on floats that are whole multiples of the smallest positive float:
\* the exact quotient rounded to the nearest multiple, ties to even (n > 0)
TrueDiv(x, n) ==
    LET q == x \div n
        r == x % n
    IN IF 2 * r < n THEN q
       ELSE IF 2 * r > n THEN q + 1
       ELSE IF q % 2 = 0 THEN q ELSE q + 1

hist_interval(min_value, max_value, num_bins) == TrueDiv(max_value - min_value, num_bins)

\* the interval != 0 test dropped
hist_registers_always(min_value, max_value, num_bins) == TRUE

hist_registers(min_value, max_value, num_bins) ==
    hist_interval(min_value, max_value, num_bins) # 0

hist_aggs_agg(field, min_value, max_value, num_bins) ==
    [histogram |-> [field |-> field,
                    interval |-> hist_interval(min_value, max_value, num_bins),
                    offset |-> min_value]]

hist_aggs(b, name, field, min_value, max_value, num_bins) ==
    /\ IF hist_registers(min_value, max_value, num_bins)
       THEN SetAgg(b, name, hist_aggs_agg(field, min_value, max_value, num_bins))
       ELSE /\ result' = Returned(None)
            /\ UNCHANGED <<query, aggs, heap, origin>>
    /\ call' = [op |-> "hist_aggs", b |-> b, name |-> name, field |-> field,
                min |-> min_value, max |-> max_value, bins |-> num_bins]

(* --------------------------- serialisers ------------------------------- *)
\* "query" written without testing empty()
search_body_always_query(h, q, m) ==
    LET keys == (IF Len(m) > 0 THEN {"aggs"} ELSE {}) \cup {"query"}
    IN [k \in keys |-> IF k = "aggs" THEN RenderMap(h, m) ELSE build(q)]

search_body(h, q, m) ==
    LET keys == (IF Len(m) > 0 THEN {"aggs"} ELSE {}) \cup
                (IF ~empty(q) THEN {"query"} ELSE {})
    IN [k \in keys |-> IF k = "aggs" THEN RenderMap(h, m) ELSE build(q)]

to_search_body(b) ==
    /\ result' = Returned(search_body(heap, query[b], aggs[b]))
    /\ call' = [op |-> "to_search_body", b |-> b]
    /\ UNCHANGED <<query, aggs, heap, origin>>

\* the warning never raised
count_warns_never(m) == FALSE

count_warns(m) == Len(m) > 0

count_body(q) == IF empty(q) THEN None ELSE [query |-> build(q)]

to_count_body(b) ==
    /\ result' = [ret |-> count_body(query[b]), raised |-> "none",
                  warned |-> count_warns(aggs[b])]
    /\ call' = [op |-> "to_count_body", b |-> b]
    /\ UNCHANGED <<query, aggs, heap, origin>>

\* the value of self._aggs of builder b: names with their nested dicts
Aggs(b) == RenderMap(heap, aggs[b])

(* --------------------------- specification ----------------------------- *)
FilterStep(b, fields, lists, musts, patterns, filters, seeds) ==
    \/ \E f \in fields, must \in musts : exists(b, f, must)
    \/ \E it \in lists, must \in musts : ids(b, it, must)
    \/ \E f \in fields, it \in lists, must \in musts : terms(b, f, it, must)
    \/ \E f \in fields, v \in patterns : regexp(b, f, v)
    \/ \E p \in filters : update_boolean_filter(b, p)
    \/ \E seed \in seeds : random_score(b, seed)

AggStep(b, names, composites, dropnas, keys) ==
    \/ \E n \in names, fn \in BucketFuncs, f \in FieldNames, sz \in Sizes :
          terms_aggs(b, n, fn, f, sz)
    \/ \E n \in names, fn \in MetricFuncs, f \in FieldNames : metric_aggs(b, n, fn, f)
    \/ \E n \in names, f \in FieldNames : term_aggs(b, n, f)
    \/ \E n \in composites, sz \in Sizes, dropna \in dropnas : composite_agg(b, n, sz, dropna)
    \/ \E n \in composites, k \in keys : composite_agg_after_key(b, n, k)

HistStep(b, names, values, bins) ==
    \E n \in names, f \in FieldNames, lo \in values, hi \in values, nb \in bins :
        hist_aggs(b, n, f, lo, hi, nb)

SerialStep(b) ==
    \/ to_search_body(b)
    \/ to_count_body(b)

\* one builder: every filter operation, aggregations present or absent
NextFilter ==
    \/ init_new(1)
    \/ FilterStep(1, FieldNames, ItemLists, BOOLEAN, Patterns, CallerFilters, Seeds)
    \/ term_aggs(1, "color", "color")
    \/ composite_agg(1, "bucket", 5, TRUE)
    \/ SerialStep(1)

SpecFilter == Init /\ [][NextFilter]_vars

\* one builder, every aggregation operation
NextAggs ==
    \/ init_new(1)
    \/ AggStep(1, AggNames, {"bucket"}, BOOLEAN, AfterKeys)
    \/ HistStep(1, {"color"}, HistValues, HistBins)

SpecAggs == Init /\ [][NextAggs]_vars

\* two builders: construction, copy, and operations of each kind on either
\* builder
Next ==
    \E b \in Builders :
        \/ init_new(b)
        \/ \E src \in Builders : init_copy(b, src)
        \/ exists(b, "price", TRUE)
        \/ term_aggs(b, "color", "color")
        \/ metric_aggs(b, "avg_price", "avg", "price")
        \/ \E dropna \in BOOLEAN : composite_agg(b, "bucket", 5, dropna)
        \/ composite_agg_after_key(b, "bucket", [color |-> "red"])

Spec == Init /\ [][Next]_vars

(* ===================== properties: aggregations ======================== *)

\* C3 (as amended): composite_agg(name, size, dropna) leaves exactly one
\* entry, keyed by name, that is none of the previous entries; its composite
\* part has the given size and one {n: definition} source per previous entry
\* with a "terms" key, in mapping order, the definition carrying
\* missing_bucket "true" when dropna is false; its aggregations part holds
\* every other previous entry unchanged under its own name.
C3_CompositeConsumesMapping ==
    [][\A b \in Builders : call'.op = "composite_agg" /\ call'.b = b =>
        LET pre == Aggs(b)
            post == Aggs(b)'
            IsTerms(e) == "terms" \in DOMAIN e.agg
            IsOther(e) == ~IsTerms(e)
            srcs == SelectSeq(pre, IsTerms)
            others == SelectSeq(pre, IsOther)
            Flag(d) == IF call'.dropna THEN d
                       ELSE [d EXCEPT !["terms"] = [missing_bucket |-> "true"] @@ @]
        IN /\ Len(post) = 1
           /\ post[1].name = call'.name
           /\ \A i \in 1..Len(pre) : post[1] # pre[i]
           /\ DOMAIN post[1].agg = {"composite", "aggregations"}
           /\ post[1].agg.composite =
                 [size |-> call'.size,
                  sources |-> [i \in 1..Len(srcs) |-> (srcs[i].name :> Flag(srcs[i].agg))]]
           /\ post[1].agg.aggregations = others
           /\ Len(srcs) + Len(others) = Len(pre)
    ]_vars

\* C3 (as stated): as above, but every source holds the previous definition
\* of its entry exactly as it was registered.
C3_SourcesHoldRegisteredDefinition ==
    [][\A b \in Builders : call'.op = "composite_agg" /\ call'.b = b =>
        LET pre == Aggs(b)
            post == Aggs(b)'
            IsTerms(e) == "terms" \in DOMAIN e.agg
            IsOther(e) == ~IsTerms(e)
            srcs == SelectSeq(pre, IsTerms)
            others == SelectSeq(pre, IsOther)
        IN /\ Len(post) = 1
           /\ post[1].name = call'.name
           /\ \A i \in 1..Len(pre) : post[1] # pre[i]
           /\ post[1].agg.composite =
                 [size |-> call'.size,
                  sources |-> [i \in 1..Len(srcs) |-> (srcs[i].name :> srcs[i].agg)]]
           /\ post[1].agg.aggregations = others
    ]_vars

\* a composite entry named "bucket" with a flagged terms source "color" and
\* a nested metric aggregation has just been built with dropna = false
C3_Witness ==
    /\ call.op = "composite_agg" /\ call.b = 1 /\ ~call.dropna
    /\ Len(Aggs(1)) = 1
    /\ Aggs(1)[1].name = "bucket"
    /\ Len(Aggs(1)[1].agg.composite.sources) = 1
    /\ "color" \in DOMAIN Aggs(1)[1].agg.composite.sources[1]
    /\ "missing_bucket" \in DOMAIN Aggs(1)[1].agg.composite.sources[1]["color"]["terms"]
    /\ Len(Aggs(1)[1].agg.aggregations) = 1

\* C4: composite_agg_after_key(name, after_key) succeeds exactly when name
\* is registered with a definition that has a "composite" part; on success
\* the only change is that name.composite.after is after_key; otherwise it
\* raises and leaves the filter and the whole mapping unchanged.
C4_AfterKey ==
    [][\A b \in Builders : call'.op = "composite_agg_after_key" /\ call'.b = b =>
        LET pre == Aggs(b)
            post == Aggs(b)'
            registered == \E i \in 1..Len(pre) : pre[i].name = call'.name
            idx == CHOOSE i \in 1..Len(pre) : pre[i].name = call'.name
            isComposite == registered /\ "composite" \in DOMAIN pre[idx].agg
        IN /\ (result'.raised = "none") <=> isComposite
           /\ query' = query
           /\ \A o \in Builders \ {b} : Aggs(o)' = Aggs(o)
           /\ isComposite =>
                 post = [pre EXCEPT ![idx].agg.composite = [after |-> call'.after_key] @@ @]
           /\ ~isComposite =>
                 /\ result'.raised = "KeyError"
                 /\ post = pre
                 /\ aggs' = aggs /\ heap' = heap
    ]_vars

\* a cursor has just replaced a different cursor attached earlier
C4_WitnessReplaced ==
    /\ call.op = "composite_agg_after_key" /\ result.raised = "none"
    /\ Aggs(1)[1].agg.composite.after = [color |-> "blue"]
    /\ call.after_key = [color |-> "blue"]

\* C10: composite_agg with dropna = false puts missing_bucket "true" in the
\* terms body of every source and touches no nested aggregation; with
\* dropna = true every source is the previous definition, unflagged; the
\* entries the two calls build from one state differ in that flag only.
C10_MissingBucketOnlyWhenNotDropna ==
    [][\A b \in Builders : call'.op = "composite_agg" /\ call'.b = b =>
        LET pre == Aggs(b)
            entry == (Aggs(b)')[1].agg
            items == entry.composite.sources
            Key(item) == CHOOSE n \in DOMAIN item : TRUE
            Prior(n) == pre[CHOOSE i \in 1..Len(pre) : pre[i].name = n].agg
            IsOther(e) == "terms" \notin DOMAIN e.agg
            other == composite_agg_body(heap, aggs[b], call'.name, call'.size, ~call'.dropna)
            otherEntry == Render(other.heap, other.aggs[1].ref)
            Unflag(body) == [k \in DOMAIN body \ {"missing_bucket"} |-> body[k]]
            Strip(e) ==
                [e EXCEPT !["composite"]["sources"] =
                    [i \in 1..Len(@) |->
                        (Key(@[i]) :> [terms |-> Unflag(@[i][Key(@[i])]["terms"])])]]
        IN /\ ~call'.dropna =>
                 \A i \in 1..Len(items) :
                    LET body == items[i][Key(items[i])]["terms"] IN
                    /\ "missing_bucket" \in DOMAIN body
                    /\ body["missing_bucket"] = "true"
           /\ call'.dropna =>
                 \A i \in 1..Len(items) :
                    /\ items[i][Key(items[i])] = Prior(Key(items[i]))
                    /\ "missing_bucket" \notin DOMAIN items[i][Key(items[i])]["terms"]
           /\ entry.aggregations = SelectSeq(pre, IsOther)
           /\ Strip(entry) = Strip(otherEntry)
           /\ (Len(items) = 0) <=> (entry = otherEntry)
    ]_vars

\* a composite has just been built with dropna = true from a terms entry,
\* which became an unflagged source, and a histogram entry, which was nested
C10_Witness ==
    /\ call.op = "composite_agg" /\ call.dropna
    /\ Len(Aggs(1)) = 1
    /\ Len(Aggs(1)[1].agg.composite.sources) = 1
    /\ \E n \in AggNames :
          /\ n \in DOMAIN Aggs(1)[1].agg.composite.sources[1]
          /\ "missing_bucket" \notin DOMAIN Aggs(1)[1].agg.composite.sources[1][n]["terms"]
    /\ Len(Aggs(1)[1].agg.aggregations) = 1
    /\ "histogram" \in DOMAIN Aggs(1)[1].agg.aggregations[1].agg

C9_LatestRegisteringCallWins ==
    /\ [](\A b \in Builders :
            \A i, j \in 1..Len(aggs[b]) : aggs[b][i].name = aggs[b][j].name => i = j)
    /\ [][\A b \in Builders :
            /\ call'.op \in {"terms_aggs", "metric_aggs", "term_aggs", "hist_aggs"}
            /\ call'.b = b
            =>
            LET pre == Aggs(b)
                post == Aggs(b)'
                c == call'
                Names(m) == {m[i].name : i \in 1..Len(m)}
                Def(m, n) == m[CHOOSE i \in 1..Len(m) : m[i].name = n].agg
                given ==
                    IF c.op = "terms_aggs" THEN (c.func :> [field |-> c.field, size |-> c.size])
                    ELSE IF c.op = "metric_aggs" THEN (c.func :> [field |-> c.field])
                    ELSE IF c.op = "term_aggs" THEN [terms |-> [field |-> c.field]]
                    ELSE [histogram |-> [field |-> c.field,
                                         interval |-> TrueDiv(c.max - c.min, c.bins),
                                         offset |-> c.min]]
                registers == c.op = "hist_aggs" => TrueDiv(c.max - c.min, c.bins) # 0
            IN /\ registers =>
                    /\ Names(post) = Names(pre) \cup {c.name}
                    /\ Def(post, c.name) = given
                    /\ \A n \in Names(pre) \ {c.name} : Def(post, n) = Def(pre, n)
               /\ ~registers => post = pre
      ]_vars

\* C9 (as stated): after any of the four calls the entry under the call's
\* name is the definition given by that call.
C9_LatestCallWins ==
    /\ [](\A b \in Builders :
            \A i, j \in 1..Len(aggs[b]) : aggs[b][i].name = aggs[b][j].name => i = j)
    /\ [][\A b \in Builders :
            /\ call'.op \in {"terms_aggs", "metric_aggs", "term_aggs", "hist_aggs"}
            /\ call'.b = b
            =>
            LET pre == Aggs(b)
                post == Aggs(b)'
                c == call'
                Names(m) == {m[i].name : i \in 1..Len(m)}
                Def(m, n) == m[CHOOSE i \in 1..Len(m) : m[i].name = n].agg
                given ==
                    IF c.op = "terms_aggs" THEN (c.func :> [field |-> c.field, size |-> c.size])
                    ELSE IF c.op = "metric_aggs" THEN (c.func :> [field |-> c.field])
                    ELSE IF c.op = "term_aggs" THEN [terms |-> [field |-> c.field]]
                    ELSE [histogram |-> [field |-> c.field,
                                         interval |-> TrueDiv(c.max - c.min, c.bins),
                                         offset |-> c.min]]
                registers == TRUE
            IN /\ registers =>
                    /\ Names(post) = Names(pre) \cup {c.name}
                    /\ Def(post, c.name) = given
                    /\ \A n \in Names(pre) \ {c.name} : Def(post, n) = Def(pre, n)
               /\ ~registers => post = pre
      ]_vars

\* a second registration under a name has just replaced a definition of
\* another shape, next to an entry of another name
C9_WitnessOverwritten ==
    /\ call.op = "metric_aggs"
    /\ Len(Aggs(1)) = 2
    /\ Aggs(1)[1].name = call.name
    /\ Aggs(1)[1].agg = (call.func :> [field |-> call.field])
    /\ "histogram" \in DOMAIN Aggs(1)[2].agg

(* ================== properties: filter and rendering =================== *)

\* C2: a filter operation adding P to a builder whose filter is the identity
\* installs exactly P, with no AND node around it, and
\* update_boolean_filter(identity) on a builder whose filter is P leaves
\* exactly P.
C2_IdentityLaw ==
    [][\A b \in Builders :
            /\ call'.op \in {"exists", "ids", "terms", "regexp", "update_boolean_filter"}
            /\ call'.b = b
            =>
            LET c == call'
                P == IF c.op = "exists"
                        THEN (IF c.must THEN NotNull(c.field) ELSE IsNull(c.field))
                     ELSE IF c.op = "ids"
                        THEN (IF c.must THEN IsIn("ids", c.items)
                              ELSE NotFilter(IsIn("ids", c.items)))
                     ELSE IF c.op = "terms"
                        THEN (IF c.must THEN IsIn(c.field, c.items)
                              ELSE NotFilter(IsIn(c.field, c.items)))
                     ELSE IF c.op = "regexp" THEN Rlike(c.field, c.value)
                     ELSE c.filter
            IN /\ query[b] = EmptyFilter => query'[b] = P
               /\ P = EmptyFilter => query'[b] = query[b]
      ]_vars

\* the identity filter has just been combined into a non-identity filter
C2_WitnessRightIdentity ==
    /\ call.op = "update_boolean_filter"
    /\ call.filter = EmptyFilter
    /\ query[1] # EmptyFilter

\* C8: each exists, ids, terms or regexp call ANDs its own predicate onto
\* the filter accumulated so far (installing it alone on a new builder):
\* NotNull(f) or IsNull(f) for exists, IsIn or NOT(IsIn) of the whole item
\* list for ids and terms, so that the filter is the AND of the per-call
\* predicates in call order and a negation covers one call's test only.
C8_FilterIsAndOfCallPredicates ==
    [][\A b \in Builders :
            /\ call'.op \in {"exists", "ids", "terms", "regexp"}
            /\ call'.b = b
            =>
            LET c == call'
                P == IF c.op = "exists"
                        THEN (IF c.must THEN [op |-> "not_null", field |-> c.field]
                              ELSE [op |-> "is_null", field |-> c.field])
                     ELSE IF c.op = "ids"
                        THEN (IF c.must
                              THEN [op |-> "is_in", field |-> "ids", items |-> c.items]
                              ELSE [op |-> "not",
                                    arg |-> [op |-> "is_in", field |-> "ids", items |-> c.items]])
                     ELSE IF c.op = "terms"
                        THEN (IF c.must
                              THEN [op |-> "is_in", field |-> c.field, items |-> c.items]
                              ELSE [op |-> "not",
                                    arg |-> [op |-> "is_in", field |-> c.field, items |-> c.items]])
                     ELSE [op |-> "rlike", field |-> c.field, value |-> c.value]
            IN query'[b] = IF query[b] = EmptyFilter THEN P
                           ELSE [op |-> "and", left |-> query[b], right |-> P]
      ]_vars

\* terms(field, items, must=false) has just been added to a filter holding
\* one predicate: the negation sits on the second conjunct alone
C8_WitnessNegatedTerms ==
    /\ call.op = "terms" /\ ~call.must
    /\ query[1].op = "and"
    /\ query[1].right = NotFilter(IsIn(call.field, call.items))
    /\ query[1].left.op \in {"not_null", "is_null", "is_in", "rlike"}

\* C5: to_search_body() returns a mapping with "aggs" exactly when the
\* aggregation mapping is not empty (then that mapping) and "query" exactly
\* when the filter is not the identity (then its rendered form), no other
\* key, and changes neither the filter nor the aggregations.
C5_SearchBody ==
    [][\A b \in Builders : call'.op = "to_search_body" /\ call'.b = b =>
        LET body == result'.ret IN
        /\ result'.raised = "none"
        /\ DOMAIN body \subseteq {"aggs", "query"}
        /\ ("aggs" \in DOMAIN body) <=> (Len(aggs[b]) > 0)
        /\ "aggs" \in DOMAIN body => body["aggs"] = Aggs(b)
        /\ ("query" \in DOMAIN body) <=> (query[b] # EmptyFilter)
        /\ "query" \in DOMAIN body => body["query"] = build(query[b])
        /\ (query[b] = EmptyFilter /\ aggs[b] = <<>>) => body = <<>>
        /\ query' = query /\ aggs' = aggs /\ heap' = heap
    ]_vars

\* a search body with both keys has just been returned
C5_WitnessBothKeys ==
    /\ call.op = "to_search_body"
    /\ DOMAIN result.ret = {"aggs", "query"}
    /\ query[1].op = "random_score"

\* C6: to_count_body() returns None exactly when the filter is the
\* identity and otherwise a mapping with the single key "query" holding the
\* rendered filter, whatever the aggregations; it warns exactly when
\* aggregations are registered, never raises, and changes no state.
C6_CountBody ==
    [][\A b \in Builders : call'.op = "to_count_body" /\ call'.b = b =>
        LET ret == result'.ret IN
        /\ result'.raised = "none"
        /\ (ret = None) <=> (query[b] = EmptyFilter)
        /\ ret # None => DOMAIN ret = {"query"} /\ ret["query"] = build(query[b])
        /\ result'.warned <=> (Len(aggs[b]) > 0)
        /\ query' = query /\ aggs' = aggs /\ heap' = heap
    ]_vars

\* a count body has just been returned, with a warning, for a builder that
\* has a filter and an aggregation
C6_WitnessWarned ==
    /\ call.op = "to_count_body"
    /\ result.warned
    /\ result.ret # None
    /\ Len(aggs[1]) > 0

(* ======================= properties: copying =========================== *)

\* C1: no dict is reachable from two builders, and a call on one builder
\* (a mutation, or the construction of that builder from another) leaves
\* what to_search_body() and to_count_body() return for every other builder
\* as it was.
C1_DeepCopyIndependence ==
    /\ [](ReachMap(heap, aggs[1]) \cap ReachMap(heap, aggs[2]) = {})
    /\ [][\A b \in Builders : call'.b # b =>
            /\ search_body(heap, query[b], aggs[b])' = search_body(heap, query[b], aggs[b])
            /\ count_body(query[b])' = count_body(query[b])
      ]_vars

\* builder 2 was made as a copy of builder 1 and then consumed its copy of
\* the terms entry "color" into a composite with dropna = false, flagging
\* it, while builder 1 still renders "color" unflagged and has a filter
C1_WitnessCopyMutated ==
    /\ origin[2] = 1
    /\ call.op = "composite_agg" /\ call.b = 2 /\ ~call.dropna
    /\ query[1] # EmptyFilter
    /\ Len(Aggs(1)) = 1
    /\ Aggs(1)[1] = [name |-> "color", agg |-> [terms |-> [field |-> "color"]]]
    /\ Len(Aggs(2)) = 1
    /\ Len(Aggs(2)[1].agg.composite.sources) = 1
    /\ "color" \in DOMAIN Aggs(2)[1].agg.composite.sources[1]
    /\ "missing_bucket" \in DOMAIN Aggs(2)[1].agg.composite.sources[1]["color"]["terms"]

====
